---- MODULE Spec2Model ----
(***************************************************************************)
(* Model of the stagehop backend: the three read-only endpoints of main.py *)
(* (read_today_events, read_filtered_events, get_venues), the get_db       *)
(* session dependency and the to_geojson projection, over the two tables   *)
(* of models.py.                                                           *)
(*                                                                         *)
(* Optional values (a nullable column, an omitted query parameter, an      *)
(* absent relationship) are sequences: << >> is None/NULL, <<x>> is x.     *)
(* Strings are sequences of one-character strings.  A datetime is a number *)
(* of ticks, the smallest representable instant; a day has TicksPerDay of  *)
(* them.                                                                   *)
(***************************************************************************)
EXTENDS Integers, Sequences, FiniteSets, TLC

VARIABLES
    venues,     \* table venues: id -> row (the columns of models.Venue)
    events,     \* table events: id -> row (date, venue_id of models.Event)
    clock,      \* the server's local time, in ticks
    reqs,       \* request id -> the request (endpoint and query parameters)
    pc,         \* request id -> "new", "open", "handled", "done"
    sess,       \* request id -> the session get_db yielded to it (0: none yet)
    sessions,   \* every session SessionLocal() has made: [open, closes]
    rows,       \* request id -> the list `events` the handler ended with
    resp,       \* request id -> [status, body] of the handler
    nq          \* request id -> number of event queries the handler issued

vars == <<venues, events, clock, reqs, pc, sess, sessions, rows, resp, nq>>

----------------------------------------------------------------------------
(* Bounds of the model *)

\* instants in a day (datetime.max.time() is the last of them)
TicksPerDay == 2
\* rows of the events table
MaxEvents == 2
\* requests in flight together
MaxReq == 2

----------------------------------------------------------------------------
(* Optional values *)

None == << >>
Some(x) == <<x>>
Val(o) == o[1]
Opt(S) == {None} \cup {Some(x) : x \in S}

Min(a, b) == IF a <= b THEN a ELSE b

\* every enumeration of the finite set S: the orders a SELECT without
\* ORDER BY may return its rows in
Orders(S) ==
    {o \in [1..Cardinality(S) -> S] : \A i, j \in 1..Cardinality(S) : o[i] = o[j] => i = j}

----------------------------------------------------------------------------
(* Dates *)

\* datetime.combine(day, datetime.min.time())
StartOfDay(day) == day * TicksPerDay
\* datetime.combine(t.date(), datetime.max.time())
EndOfDay(t) == (t \div TicksPerDay) * TicksPerDay + (TicksPerDay - 1)
\* date.today()
Today == clock \div TicksPerDay
\* timedelta(days=3)
FallbackDays == 3
\* datetime.isoformat(): the date part and the time part
IsoFormat(t) == <<t \div TicksPerDay, "T", t % TicksPerDay>>

\* SQL comparison of a nullable column with a bound: NULL compares to nothing
SqlGe(col, bound) == col # None /\ Val(col) >= bound
SqlLe(col, bound) == col # None /\ Val(col) <= bound

----------------------------------------------------------------------------
(* ILIKE *)

Lower(c) == CASE c = "A" -> "a" [] c = "B" -> "b" [] OTHER -> c
LowerStr(s) == [i \in 1..Len(s) |-> Lower(s[i])]

\* SQL LIKE: % matches any run of characters, _ any one character
RECURSIVE Like(_, _)
Like(s, p) ==
    IF p = << >> THEN s = << >>
    ELSE IF Head(p) = "%" THEN Like(s, Tail(p)) \/ (s # << >> /\ Like(Tail(s), p))
    ELSE IF Head(p) = "_" THEN s # << >> /\ Like(Tail(s), Tail(p))
    ELSE s # << >> /\ Head(s) = Head(p) /\ Like(Tail(s), Tail(p))

\* NameILike as LIKE: the match made case-sensitive
NameLike(name, venue_name) ==
    /\ name # None
    /\ Like(Val(name), <<"%">> \o venue_name \o <<"%">>)

\* Venue.name.ilike(f'%{venue_name}%'); NULL ILIKE anything is NULL, not true
NameILike(name, venue_name) ==
    /\ name # None
    /\ Like(LowerStr(Val(name)), LowerStr(<<"%">> \o venue_name \o <<"%">>))

----------------------------------------------------------------------------
(* ORM objects *)

\* the attributes of a Venue instance: the mapped columns of models.Venue
VenueObj(vid) ==
    [id |-> vid, name |-> venues[vid].name, lat |-> venues[vid].lat, lon |-> venues[vid].lon]

\* Event.venue: the row venue_id refers to, None when there is none
VenueOf(eid) ==
    LET fk == events[eid].venue_id IN
    IF fk # None /\ Val(fk) \in DOMAIN venues THEN Some(VenueObj(Val(fk))) ELSE None

EventObj(eid) == [id |-> eid, date |-> events[eid].date, venue |-> VenueOf(eid)]

\* db.query(Event).join(Event.venue): the inner join keeps the events with a venue row
Joined == {eid \in DOMAIN events : VenueOf(eid) # None}

----------------------------------------------------------------------------
(* to_geojson *)

\* `e.venue and e.venue.lat is not None and e.venue.lon is not None`
HasCoordinates(e) ==
    /\ e.venue # None
    /\ Val(e.venue).lat # None
    /\ Val(e.venue).lon # None

\* the feature dict of one event; e.venue.logo is read while it is built
Feature(e) ==
    LET v == Val(e.venue) IN
    [type |-> "Feature",
     geometry |-> [type |-> "Point", coordinates |-> <<Val(v.lon), Val(v.lat)>>],
     properties |-> [id |-> e.id,
                     date |-> IF e.date # None THEN Some(IsoFormat(Val(e.date))) ELSE None,
                     venue |-> [id |-> v.id, name |-> v.name, logo |-> v.logo]]]

\* reading attribute a of an ORM object raises AttributeError unless it is mapped
HasAttr(obj, a) == a \in DOMAIN obj

RECURSIVE ToGeojsonFrom(_, _, _)
ToGeojsonFrom(evs, i, features) ==
    IF i > Len(evs) THEN [status |-> "ok", body |-> features]
    ELSE IF ~HasCoordinates(evs[i]) THEN ToGeojsonFrom(evs, i + 1, features)
    ELSE IF ~HasAttr(Val(evs[i].venue), "logo") THEN [status |-> "AttributeError", body |-> << >>]
    ELSE ToGeojsonFrom(evs, i + 1, Append(features, Feature(evs[i])))

ToGeojson(evs) == ToGeojsonFrom(evs, 1, << >>)

----------------------------------------------------------------------------
(* Queries *)

\* query.all(): the rows of S in some order, or the database fails the query
QueryAll(S) ==
    {[ok |-> TRUE, rows |-> o] : o \in Orders(S)} \cup {[ok |-> FALSE, rows |-> << >>]}

\* query.offset(offset).limit(limit) on a list of rows
Paginate(o, offset, limit) == SubSeq(o, offset + 1, Min(Len(o), offset + limit))

\* .filter(Event.date >= start, Event.date <= end) on the join
InWindow(start, end) ==
    {eid \in Joined : SqlGe(events[eid].date, start) /\ SqlLe(events[eid].date, end)}

Objs(ids) == [i \in 1..Len(ids) |-> EventObj(ids[i])]

\* what a handler ends with: the event list, the response, the queries issued
Outcome(ids, n) == [rows |-> ids, resp |-> ToGeojson(Objs(ids)), nq |-> n]
DbError(n) == [rows |-> << >>, resp |-> [status |-> "DBError", body |-> << >>], nq |-> n]

----------------------------------------------------------------------------
(* read_today_events *)

TodayStart == StartOfDay(Today)
TodayEnd == EndOfDay(TodayStart)
\* FallbackEnd a day short
FallbackEndShort == TodayStart + (FallbackDays - 1) * TicksPerDay
FallbackEnd == TodayStart + FallbackDays * TicksPerDay

\* the fallback branch: the second query, over [start, start + 3 days]
FallbackOutcomes ==
    {IF q.ok THEN Outcome(q.rows, 2) ELSE DbError(2) : q \in QueryAll(InWindow(TodayStart, FallbackEnd))}

\* ReadTodayOutcomes without the fallback branch
ReadTodayNoFallback ==
    {IF q.ok THEN Outcome(q.rows, 1) ELSE DbError(1) : q \in QueryAll(InWindow(TodayStart, TodayEnd))}

ReadTodayOutcomes ==
    UNION {IF ~q.ok THEN {DbError(1)}
           ELSE IF q.rows # << >> THEN {Outcome(q.rows, 1)}
           ELSE FallbackOutcomes : q \in QueryAll(InWindow(TodayStart, TodayEnd))}

----------------------------------------------------------------------------
(* read_filtered_events *)

\* DateTo without the default: a missing date_to stays missing
DateToAsGiven(date_from, date_to) == date_to

\* `if date_from and not date_to`: a datetime is always truthy
DateTo(date_from, date_to) ==
    IF date_from # None /\ date_to = None THEN Some(EndOfDay(Val(date_from))) ELSE date_to

\* the filters the handler adds to the join, for one event
Matches(eid, date_from, date_to, venue_name) ==
    /\ eid \in Joined
    /\ date_from # None => SqlGe(events[eid].date, Val(date_from))
    /\ DateTo(date_from, date_to) # None
          => SqlLe(events[eid].date, Val(DateTo(date_from, date_to)))
    \* `if venue_name`: None and the empty string are both falsy
    /\ (venue_name # None /\ Val(venue_name) # << >>)
          => NameILike(Val(VenueOf(eid)).name, Val(venue_name))

Matching(q) == {eid \in DOMAIN events : Matches(eid, q.date_from, q.date_to, q.venue_name)}

ReadFilteredOutcomes(q) ==
    {DbError(1)} \cup {Outcome(Paginate(o, q.offset, q.limit), 1) : o \in Orders(Matching(q))}

----------------------------------------------------------------------------
(* get_venues *)

VenueDict(v) == [id |-> v.id, name |-> v.name, lat |-> v.lat, lon |-> v.lon, logo |-> v.logo]

\* the list comprehension over the venues read: v.logo is read for each of them
VenueList(vs) ==
    IF \E i \in 1..Len(vs) : ~HasAttr(vs[i], "logo")
    THEN [status |-> "AttributeError", body |-> << >>]
    ELSE [status |-> "ok", body |-> [i \in 1..Len(vs) |-> VenueDict(vs[i])]]

GetVenuesOutcomes ==
    {IF q.ok
     THEN [rows |-> << >>, resp |-> VenueList([i \in 1..Len(q.rows) |-> VenueObj(q.rows[i])]), nq |-> 0]
     ELSE DbError(0) : q \in QueryAll(DOMAIN venues)}

----------------------------------------------------------------------------
(* Requests *)

\* limit: int = Query(10, ge=1, le=20); offset: int = Query(0, ge=0)
DefaultLimit == 10
MaxLimit == 20
DefaultOffset == 0

FilteredReq(df, dt, vn, l, o) ==
    [kind |-> "filtered", date_from |-> df, date_to |-> dt, venue_name |-> vn,
     limit |-> l, offset |-> o]
PlainReq(k) ==
    [kind |-> k, date_from |-> None, date_to |-> None, venue_name |-> None,
     limit |-> DefaultLimit, offset |-> DefaultOffset]

Pending == [status |-> "pending", body |-> << >>]

----------------------------------------------------------------------------
(* Actions *)

\* SessionLocal(): a session of its own for each call, open and never closed
NewSession == [open |-> TRUE, closes |-> 0]

\* get_db up to its yield: db = SessionLocal()
GetDb(r) ==
    /\ pc[r] = "new"
    /\ sessions' = Append(sessions, NewSession)
    /\ sess' = [sess EXCEPT ![r] = Len(sessions) + 1]
    /\ pc' = [pc EXCEPT ![r] = "open"]
    /\ UNCHANGED <<venues, events, clock, reqs, rows, resp, nq>>

Handle(r, o) ==
    /\ rows' = [rows EXCEPT ![r] = o.rows]
    /\ resp' = [resp EXCEPT ![r] = o.resp]
    /\ nq' = [nq EXCEPT ![r] = o.nq]
    /\ pc' = [pc EXCEPT ![r] = "handled"]
    /\ UNCHANGED <<venues, events, clock, reqs, sess, sessions>>

ReadTodayEvents(r) ==
    /\ pc[r] = "open"
    /\ reqs[r].kind = "today"
    /\ \E o \in ReadTodayOutcomes : Handle(r, o)

ReadFilteredEvents(r) ==
    /\ pc[r] = "open"
    /\ reqs[r].kind = "filtered"
    /\ \E o \in ReadFilteredOutcomes(reqs[r]) : Handle(r, o)

GetVenues(r) ==
    /\ pc[r] = "open"
    /\ reqs[r].kind = "venues"
    /\ \E o \in GetVenuesOutcomes : Handle(r, o)

\* CloseDb without the finally: the session is closed after a normal return only
CloseDbOnSuccess(r) ==
    /\ pc[r] = "handled"
    /\ sessions' = IF resp[r].status = "ok"
                   THEN [sessions EXCEPT ![sess[r]] = [open |-> FALSE, closes |-> @.closes + 1]]
                   ELSE sessions
    /\ pc' = [pc EXCEPT ![r] = "done"]
    /\ UNCHANGED <<venues, events, clock, reqs, sess, rows, resp, nq>>

\* get_db after its yield: finally: db.close()
CloseDb(r) ==
    /\ pc[r] = "handled"
    /\ sessions' = [sessions EXCEPT ![sess[r]] = [open |-> FALSE, closes |-> @.closes + 1]]
    /\ pc' = [pc EXCEPT ![r] = "done"]
    /\ UNCHANGED <<venues, events, clock, reqs, sess, rows, resp, nq>>

\* to_geojson called on its own, on the list rows[r]
CallToGeojson(r) ==
    /\ pc[r] = "call"
    /\ resp' = [resp EXCEPT ![r] = ToGeojson(Objs(rows[r]))]
    /\ pc' = [pc EXCEPT ![r] = "returned"]
    /\ UNCHANGED <<venues, events, clock, reqs, sess, sessions, rows, nq>>

DoGetDb == \E r \in DOMAIN reqs : GetDb(r)
DoReadTodayEvents == \E r \in DOMAIN reqs : ReadTodayEvents(r)
DoReadFilteredEvents == \E r \in DOMAIN reqs : ReadFilteredEvents(r)
DoGetVenues == \E r \in DOMAIN reqs : GetVenues(r)
DoCloseDb == \E r \in DOMAIN reqs : CloseDb(r)

Next ==
    \/ DoGetDb
    \/ DoReadTodayEvents
    \/ DoReadFilteredEvents
    \/ DoGetVenues
    \/ DoCloseDb

NextGeo == \E r \in DOMAIN reqs : CallToGeojson(r)

----------------------------------------------------------------------------
(* Initial states *)

\* the state before any request has run, for given tables, clock and requests
InitWith(vs, es, c, rq) ==
    /\ venues = vs
    /\ events = es
    /\ clock = c
    /\ reqs = rq
    /\ pc = [r \in DOMAIN rq |-> "new"]
    /\ sess = [r \in DOMAIN rq |-> 0]
    /\ sessions = << >>
    /\ rows = [r \in DOMAIN rq |-> << >>]
    /\ resp = [r \in DOMAIN rq |-> Pending]
    /\ nq = [r \in DOMAIN rq |-> 0]

VenueRow(n, la, lo) == [name |-> n, lat |-> la, lon |-> lo]
EventRow(d, fk) == [date |-> d, venue_id |-> fk]

\* a venue with both coordinates and one without latitude, or no venue at all
ServeVenues ==
    {<< >>,
     <<VenueRow(Some(<<"A", "b">>), Some(1), Some(2)), VenueRow(Some(<<"b">>), None, Some(4))>>}
ServeEvents == {<<EventRow(Some(0), Some(1)), EventRow(Some(0), Some(v))>> : v \in 1..2}
ServeReqs ==
    {PlainReq("today"), PlainReq("venues"),
     FilteredReq(None, None, None, 1, 0), FilteredReq(None, None, None, MaxLimit, 1)}

\* the server with MaxReq requests in flight
Init ==
    \E vs \in ServeVenues, es \in ServeEvents, rq \in [1..MaxReq -> ServeReqs] :
        InitWith(vs, es, 0, rq)

Spec == Init /\ [][Next]_vars

\* one /events request with its filters, on tables of MaxEvents events
FilterTimes == 0..TicksPerDay
FilterNames == {None, Some(<<"A", "b">>)}
FilterVenues == {<<VenueRow(n, Some(1), Some(2))>> : n \in FilterNames}
FilterEvents ==
    [1..MaxEvents -> {EventRow(d, fk) : d \in Opt(FilterTimes), fk \in Opt({1})}]
FilterPatterns == {None, Some(<< >>), Some(<<"a", "B">>), Some(<<"b", "a">>), Some(<<"_">>)}
FilterReqs ==
    {FilteredReq(df, dt, vn, DefaultLimit, DefaultOffset) :
        df \in Opt(FilterTimes), dt \in Opt(FilterTimes), vn \in FilterPatterns}
    \cup {PlainReq("today"), PlainReq("venues")}

InitFilter ==
    \E vs \in FilterVenues, es \in FilterEvents, rq \in [{1} -> FilterReqs] :
        InitWith(vs, es, 0, rq)

SpecFilter == InitFilter /\ [][Next]_vars

\* one request on tables whose events lie around today and the three days
\* after: the server's day is day 1, and an event is dated at the end of
\* yesterday, at either end of today, at the start of tomorrow, three days
\* on to the instant, or just after that
TodayClocks == {TicksPerDay, 2 * TicksPerDay - 1}
TodayTimes ==
    {TicksPerDay - 1, TicksPerDay, 2 * TicksPerDay - 1, 2 * TicksPerDay,
     (FallbackDays + 1) * TicksPerDay, (FallbackDays + 1) * TicksPerDay + 1}
TodayVenues ==
    {<<VenueRow(Some(<<"A", "b">>), Some(1), Some(2)), VenueRow(Some(<<"b">>), None, Some(4))>>}
TodayEvents ==
    [1..MaxEvents -> {EventRow(d, fk) : d \in Opt(TodayTimes), fk \in Opt(1..2)}]
TodayReqs ==
    {PlainReq("today"), PlainReq("venues"),
     FilteredReq(None, None, None, DefaultLimit, DefaultOffset)}

InitToday ==
    \E vs \in TodayVenues, es \in TodayEvents, c \in TodayClocks, rq \in [{1} -> TodayReqs] :
        InitWith(vs, es, c, rq)

SpecToday == InitToday /\ [][Next]_vars

\* to_geojson on a list of events, each with or without a venue and coordinates
GeoVenues ==
    [1..2 -> {VenueRow(Some(<<"a">>), la, lo) : la \in Opt({0, 1}), lo \in Opt({2})}]
GeoEvents ==
    [1..MaxEvents -> {EventRow(d, fk) : d \in Opt({0}), fk \in Opt({1, 2})}]
GeoInputs == UNION {[1..n -> 1..MaxEvents] : n \in 0..MaxEvents}

InitGeo ==
    \E vs \in GeoVenues, es \in GeoEvents, in \in GeoInputs :
        /\ venues = vs
        /\ events = es
        /\ clock = 0
        /\ reqs = <<PlainReq("to_geojson")>>
        /\ pc = <<"call">>
        /\ sess = <<0>>
        /\ sessions = << >>
        /\ rows = <<in>>
        /\ resp = <<Pending>>
        /\ nq = <<0>>

SpecGeo == InitGeo /\ [][NextGeo]_vars

----------------------------------------------------------------------------
(* Properties *)

Returned(r, k) == pc[r] \in {"handled", "done"} /\ reqs[r].kind = k
Answered(r, k) == Returned(r, k) /\ resp[r].status # "DBError"
RowSet(r) == {rows[r][i] : i \in 1..Len(rows[r])}
Max(a, b) == IF a >= b THEN a ELSE b

\* the event's venue_id refers to a venue row
HasVenueRow(eid) ==
    events[eid].venue_id # None /\ Val(events[eid].venue_id) \in DOMAIN venues
VenueRowOf(eid) == venues[Val(events[eid].venue_id)]
\* the event's venue exists and has both latitude and longitude
Renderable(eid) ==
    HasVenueRow(eid) /\ VenueRowOf(eid).lat # None /\ VenueRowOf(eid).lon # None
\* the body holds a Point feature of event eid at [lon, lat] of its own venue
HasFeatureOf(body, eid) ==
    \E i \in 1..Len(body) :
        /\ body[i].properties.id = eid
        /\ body[i].geometry.type = "Point"
        /\ body[i].geometry.coordinates = <<Val(VenueRowOf(eid).lon), Val(VenueRowOf(eid).lat)>>

\* C1: to_geojson returns a collection with at most as many features as
\* input events, and with exactly as many iff every input event has a venue
\* with both coordinates.
C1_FeatureCount ==
    \A r \in DOMAIN reqs :
        pc[r] = "returned" =>
            /\ resp[r].status = "ok"
            /\ Len(resp[r].body) <= Len(rows[r])
            /\ (Len(resp[r].body) = Len(rows[r]))
                   <=> (\A i \in 1..Len(rows[r]) : Renderable(rows[r][i]))

WholePage(r) ==
    /\ Answered(r, "filtered")
    /\ reqs[r].offset = 0
    /\ reqs[r].limit >= Cardinality(DOMAIN events)

DateOf(eid) == events[eid].date
\* the last instant of the calendar day of t
LastInstantOfDay(t) == ((t \div TicksPerDay) + 1) * TicksPerDay - 1

\* name contains t as a case-insensitive substring
ContainsCI(name, t) ==
    \E k \in 0..(Len(name) - Len(t)) :
        \A j \in 1..Len(t) : Lower(name[k + j]) = Lower(t[j])
\* as ContainsCI, with _ in t standing for any one character
ContainsPattern(name, t) ==
    \E k \in 0..(Len(name) - Len(t)) :
        \A j \in 1..Len(t) : t[j] = "_" \/ Lower(name[k + j]) = Lower(t[j])

FromOk(eid, q) ==
    q.date_from # None => (DateOf(eid) # None /\ Val(DateOf(eid)) >= Val(q.date_from))
ToOk(eid, q) ==
    q.date_to # None => (DateOf(eid) # None /\ Val(DateOf(eid)) <= Val(q.date_to))
DerivedToOk(eid, q) ==
    (q.date_from # None /\ q.date_to = None)
        => (DateOf(eid) # None /\ Val(DateOf(eid)) <= LastInstantOfDay(Val(q.date_from)))

C5_WholeDay ==
    \A r \in DOMAIN reqs :
        (/\ WholePage(r)
         /\ reqs[r].venue_name = None
         /\ reqs[r].date_from # None
         /\ reqs[r].date_to = reqs[r].date_from
         /\ Val(reqs[r].date_from) % TicksPerDay = 0)
        => \A eid \in DOMAIN events :
               (/\ Renderable(eid)
                /\ DateOf(eid) # None
                /\ Val(DateOf(eid)) # Val(reqs[r].date_from)
                /\ Val(DateOf(eid)) \div TicksPerDay = Val(reqs[r].date_from) \div TicksPerDay)
               => resp[r].status = "ok" /\ HasFeatureOf(resp[r].body, eid)

\* C10: date_from without date_to admits exactly the events with
\* date_from <= date <= last instant of date_from's day; a given date_to is
\* used as it is; with neither there is no date filter.
C10_DerivedDateTo ==
    \A r \in DOMAIN reqs :
        WholePage(r) =>
            LET q == reqs[r]
                undated == Matching([q EXCEPT !.date_from = None, !.date_to = None])
                between(eid, lo, hi) ==
                    DateOf(eid) # None /\ lo <= Val(DateOf(eid)) /\ Val(DateOf(eid)) <= hi
            IN  RowSet(r) =
                    {eid \in undated :
                        CASE q.date_from # None /\ q.date_to = None ->
                                 between(eid, Val(q.date_from), LastInstantOfDay(Val(q.date_from)))
                          [] q.date_from # None /\ q.date_to # None ->
                                 between(eid, Val(q.date_from), Val(q.date_to))
                          [] q.date_from = None /\ q.date_to # None ->
                                 DateOf(eid) # None /\ Val(DateOf(eid)) <= Val(q.date_to)
                          [] OTHER -> TRUE}

\* date_from alone: an event later that day is kept, one of the next day dropped
C10_Witness ==
    \E r \in DOMAIN reqs :
        /\ WholePage(r)
        /\ reqs[r].date_from # None
        /\ reqs[r].date_to = None
        /\ \E kept \in RowSet(r) : Val(DateOf(kept)) > Val(reqs[r].date_from)
        /\ \E eid \in DOMAIN events \ RowSet(r) :
               /\ HasVenueRow(eid)
               /\ DateOf(eid) # None
               /\ Val(DateOf(eid)) > LastInstantOfDay(Val(reqs[r].date_from))

\* the events dated from lo to hi, whether or not they have a venue
DatedWithin(lo, hi) ==
    {eid \in DOMAIN events : DateOf(eid) # None /\ lo <= Val(DateOf(eid)) /\ Val(DateOf(eid)) <= hi}
\* the events of the join dated from lo to hi
JoinedWithin(lo, hi) == {eid \in DatedWithin(lo, hi) : HasVenueRow(eid)}

DayStart == (clock \div TicksPerDay) * TicksPerDay
DayEnd == DayStart + TicksPerDay - 1
ThreeDaysOn == DayStart + 3 * TicksPerDay

C9_FallbackOnce ==
    \A r \in DOMAIN reqs :
        Returned(r, "today") =>
            LET first == JoinedWithin(DayStart, DayEnd)
                second == JoinedWithin(DayStart, ThreeDaysOn)
            IN  /\ nq[r] \in {1, 2}
                /\ first # {} => nq[r] = 1
                /\ nq[r] = 2 => first = {}
                /\ resp[r].status # "DBError" =>
                       /\ nq[r] = (IF first = {} THEN 2 ELSE 1)
                       /\ RowSet(r) = (IF first = {} THEN second ELSE first)
                       /\ Len(rows[r]) = Cardinality(RowSet(r))
                       /\ (first = {} /\ second = {}) =>
                              resp[r] = [status |-> "ok", body |-> << >>]

\* the fallback ran and found nothing: two queries, an empty collection
C9_Witness ==
    \E r \in DOMAIN reqs :
        /\ pc[r] = "done"
        /\ reqs[r].kind = "today"
        /\ nq[r] = 2
        /\ resp[r] = [status |-> "ok", body |-> << >>]
        /\ DatedWithin(ThreeDaysOn + 1, ThreeDaysOn + TicksPerDay) # {}

\* C4: a page of /events has min(limit, max(0, total - offset)) events, is
\* the slice at offset of the matching events in order, and is the same
\* slice each time the same request is made.
C4_Pagination ==
    \A r \in DOMAIN reqs :
        Answered(r, "filtered") =>
            LET total == Cardinality(Matching(reqs[r])) IN
            /\ Len(rows[r]) = Min(reqs[r].limit, Max(0, total - reqs[r].offset))
            /\ \E o \in Orders(Matching(reqs[r])) :
                   rows[r] = SubSeq(o, reqs[r].offset + 1, reqs[r].offset + Len(rows[r]))
            /\ \A r2 \in DOMAIN reqs :
                   (Answered(r2, "filtered") /\ reqs[r2] = reqs[r]) => rows[r2] = rows[r]

\* C6: an event whose venue has no latitude is in no collection, and
\* /venues answers with that venue's record, lat null.
C6_NullLatitude ==
    \A r \in DOMAIN reqs :
        /\ (Answered(r, "today") \/ Answered(r, "filtered")) =>
               \A i \in 1..Len(resp[r].body) :
                   VenueRowOf(resp[r].body[i].properties.id).lat # None
        /\ Answered(r, "venues") =>
               \A vid \in DOMAIN venues :
                   venues[vid].lat = None =>
                       /\ resp[r].status = "ok"
                       /\ \E i \in 1..Len(resp[r].body) :
                              /\ resp[r].body[i].id = vid
                              /\ resp[r].body[i].lat = None
                              /\ resp[r].body[i].name = venues[vid].name
                              /\ resp[r].body[i].lon = venues[vid].lon

\* C8: a request holds a session of its own from get_db's yield until the
\* handler has ended, however it ended; it can always go on to the close;
\* and once it is done its session is closed, closed once, and no session
\* is open without a request still running on it.
C8_SessionClosedOnce ==
    /\ \A r \in DOMAIN reqs :
           /\ pc[r] = "new" => sess[r] = 0
           /\ pc[r] # "new" => sess[r] \in 1..Len(sessions)
           /\ pc[r] \in {"open", "handled"} =>
                  /\ sessions[sess[r]] = [open |-> TRUE, closes |-> 0]
                  /\ ENABLED (ReadTodayEvents(r) \/ ReadFilteredEvents(r)
                                 \/ GetVenues(r) \/ CloseDb(r))
           /\ pc[r] = "done" => sessions[sess[r]] = [open |-> FALSE, closes |-> 1]
           /\ \A r2 \in DOMAIN reqs : (r2 # r /\ sess[r] # 0) => sess[r2] # sess[r]
    /\ \A i \in 1..Len(sessions) :
           \E r \in DOMAIN reqs : sess[r] = i

\* two requests done, one after a normal (empty) return and one after an
\* exception, each with its own session closed
C8_Witness ==
    \E r1, r2 \in DOMAIN reqs :
        /\ pc[r1] = "done" /\ resp[r1] = [status |-> "ok", body |-> << >>]
        /\ pc[r2] = "done" /\ resp[r2].status \in {"AttributeError", "DBError"}
        /\ sess[r1] # sess[r2]

====
